---- MODULE Spec2Model ----
(***************************************************************************)
(* Question Tag Validator (src/app.py).                                    *)
(*                                                                         *)
(* Python strings are modelled as sequences of one-character strings, so   *)
(* that strip(), upper(), isdigit(), startswith() and the UUID regular     *)
(* expression are computed character by character, as the code does.       *)
(***************************************************************************)
EXTENDS FiniteSets, Integers, Sequences, TLC

VARIABLES
    tag_str,        \* is_valid_tag: the argument tag_str
    question_id,    \* is_valid_tag: the argument question_id (None when omitted)
    accepted,       \* is_valid_tag: the value returned (FALSE before the call)
    question,       \* validate_question_tags: the question dictionary
    module_type,    \* validate_question_tags: the argument module_type
    unit_tag,       \* the unit tag the validation uses
    course_tag,     \* the course tag the validation uses
    module_tag,     \* the module tag the validation uses
    missing,        \* validate_question_tags: the list of issues returned
    valid_topic_tags_MCQS,      \* module global: valid TOPIC_ tags
    valid_sub_topic_tags_MCQS,  \* module global: valid SUB_TOPIC_ tags
    raw_json,           \* module global: the catalog document fetched (None on failure)
    session_state,      \* st.session_state: the formatted course/module/unit tags
    course_input,       \* text of the Course Name field
    module_input,       \* text of the Module Name field
    unit_input,         \* text of the Unit Name field
    mcq_file,           \* the uploaded spreadsheet (None when there is none)
    json_zip_file,      \* the uploaded archive (None when there is none)
    run_pressed,        \* whether the last script run was a press of Run Tag Check
    validation_details, \* one entry per question validated by the last script run
    all_questions,      \* the failure report of the last script run
    shown,              \* warnings and errors the last script run displayed
    name_input,     \* format_tag_name: the argument tag_input
    name_prefix,    \* format_tag_name: the argument prefix
    formatted,      \* format_tag_name: the value returned
    sheet,          \* extract_mcq_data: the uploaded file
    extracted,      \* extract_mcq_data: the list of questions returned
    pc              \* "call" before the function under check has run, "done" after;
                    \* "script" in the application

classifier_vars == <<tag_str, question_id, accepted>>

engine_vars == <<question, module_type, unit_tag, course_tag, module_tag, missing>>

catalog_vars == <<valid_topic_tags_MCQS, valid_sub_topic_tags_MCQS>>

app_vars ==
    <<raw_json, session_state, course_input, module_input,
      unit_input, mcq_file, json_zip_file, run_pressed, validation_details,
      all_questions, shown>>

format_vars == <<name_input, name_prefix, formatted>>

extract_vars == <<sheet, extracted>>

vars ==
    <<classifier_vars, engine_vars, catalog_vars, app_vars, format_vars, extract_vars, pc>>

----------------------------------------------------------------------------
(* String literals of the source.                                          *)

NIAT == <<"N","I","A","T">>
IN_OFFLINE_EXAM == <<"I","N","_","O","F","F","L","I","N","E","_","E","X","A","M">>
POOL_1 == <<"P","O","O","L","_","1">>
IS_PUBLIC == <<"I","S","_","P","U","B","L","I","C">>
IS_PRIVATE == <<"I","S","_","P","R","I","V","A","T","E">>
DIFFICULTY_EASY == <<"D","I","F","F","I","C","U","L","T","Y","_","E","A","S","Y">>
DIFFICULTY_MEDIUM == <<"D","I","F","F","I","C","U","L","T","Y","_","M","E","D","I","U","M">>
DIFFICULTY_HARD == <<"D","I","F","F","I","C","U","L","T","Y","_","H","A","R","D">>
SOURCE_ == <<"S","O","U","R","C","E","_">>
COURSE_ == <<"C","O","U","R","S","E","_">>
MODULE_ == <<"M","O","D","U","L","E","_">>
UNIT_ == <<"U","N","I","T","_">>
DIFFICULTY_ == <<"D","I","F","F","I","C","U","L","T","Y","_">>
TOPIC_ == <<"T","O","P","I","C","_">>
SUB_TOPIC_ == <<"S","U","B","_","T","O","P","I","C","_">>
MULTIPLE_CHOICE == <<"M","U","L","T","I","P","L","E","_","C","H","O","I","C","E">>
ENGLISH == <<"E","N","G","L","I","S","H">>
MARKDOWN == <<"M","A","R","K","D","O","W","N">>
TEXT == <<"T","E","X","T">>
TRUE_STR == <<"T","R","U","E">>
FALSE_STR == <<"F","A","L","S","E">>
Unknown == <<"U","n","k","n","o","w","n">>

\* Python's None (no string is equal to it).
None == <<"None">>

----------------------------------------------------------------------------
(* Python string primitives.                                               *)

LowerChars == <<"a","b","c","d","e","f","g","h","i","j","k","l","m","n","o","p","q","r","s","t","u","v","w","x","y","z">>

UpperChars == <<"A","B","C","D","E","F","G","H","I","J","K","L","M","N","O","P","Q","R","S","T","U","V","W","X","Y","Z">>

DigitChars == {"0","1","2","3","4","5","6","7","8","9"}

WhitespaceChars == {" ", "\t", "\n"}

HexChars == DigitChars \cup {"a","b","c","d","e","f","A","B","C","D","E","F"}

\* str.upper() on one character
UpperChar(c) ==
    IF \E i \in 1..26 : LowerChars[i] = c
    THEN UpperChars[CHOOSE i \in 1..26 : LowerChars[i] = c]
    ELSE c

\* str.upper()
upper(s) == [i \in 1..Len(s) |-> UpperChar(s[i])]

\* str.isdigit(): non-empty and every character a digit
isdigit(s) == Len(s) > 0 /\ \A i \in 1..Len(s) : s[i] \in DigitChars

\* str.startswith(prefix)
startswith(s, prefix) ==
    Len(s) >= Len(prefix) /\ SubSeq(s, 1, Len(prefix)) = prefix

\* c in s, for a one-character c
contains(s, c) == \E i \in 1..Len(s) : s[i] = c

\* str.strip(): leading and trailing whitespace removed
strip(s) ==
    LET keep == {i \in 1..Len(s) : s[i] \notin WhitespaceChars}
        Min(S) == CHOOSE m \in S : \A n \in S : m <= n
        Max(S) == CHOOSE m \in S : \A n \in S : m >= n
    IN  IF keep = {} THEN <<>> ELSE SubSeq(s, Min(keep), Max(keep))

\* dict.get(key, default)
get(dict, key, default) == IF key \in DOMAIN dict THEN dict[key] ELSE default

\* Python truthiness of an optional string
truthy(s) == s # None /\ s # <<>>

\* UUID_REGEX.match(s): 8-4-4-4-12 hex groups, version nibble 1-5, variant
\* nibble 8, 9, a, b, A or B; '$' also matches before one trailing newline.
UUID_REGEX_match(s) ==
    LET t == IF Len(s) = 37 /\ s[37] = "\n" THEN SubSeq(s, 1, 36) ELSE s
    IN  /\ Len(t) = 36
        /\ \A i \in 1..36 :
              IF i \in {9, 14, 19, 24} THEN t[i] = "-"
              ELSE IF i = 15 THEN t[i] \in {"1","2","3","4","5"}
              ELSE IF i = 20 THEN t[i] \in {"8","9","a","b","A","B"}
              ELSE t[i] \in HexChars

AlnumUnderscore ==
    DigitChars \cup {"_"}
    \cup {LowerChars[i] : i \in 1..26} \cup {UpperChars[i] : i \in 1..26}

\* re.sub(r'_+', '_', s): every run of underscores becomes one underscore
RECURSIVE collapse_underscores(_)
collapse_underscores(s) ==
    IF Len(s) < 2 THEN s
    ELSE IF s[1] = "_" /\ s[2] = "_" THEN collapse_underscores(Tail(s))
    ELSE <<s[1]>> \o collapse_underscores(Tail(s))

\* str.strip('_')
strip_underscores(s) ==
    LET keep == {i \in 1..Len(s) : s[i] # "_"}
        Min(S) == CHOOSE m \in S : \A n \in S : m <= n
        Max(S) == CHOOSE m \in S : \A n \in S : m >= n
    IN  IF keep = {} THEN <<>> ELSE SubSeq(s, Min(keep), Max(keep))

\* str.split(sep) for a one-character sep
RECURSIVE split(_, _)
split(s, sep) ==
    IF ~contains(s, sep) THEN <<s>>
    ELSE LET k == CHOOSE i \in 1..Len(s) : s[i] = sep /\ \A j \in 1..(i - 1) : s[j] # sep
         IN  <<SubSeq(s, 1, k - 1)>> \o split(SubSeq(s, k + 1, Len(s)), sep)

----------------------------------------------------------------------------
(* format_tag_name                                                         *)

format_tag_name(tag_input, prefix) ==
    IF ~truthy(tag_input) \/ strip(tag_input) = <<>> THEN <<>>
    ELSE LET stripped == strip(tag_input)
             unprefixed == IF startswith(stripped, prefix)
                           THEN SubSeq(stripped, Len(prefix) + 1, Len(stripped))
                           ELSE stripped
             replaced == [i \in 1..Len(unprefixed) |->
                             IF unprefixed[i] \in AlnumUnderscore THEN unprefixed[i] ELSE "_"]
             formatted_tag == strip_underscores(collapse_underscores(replaced))
         IN  IF formatted_tag # <<>> THEN prefix \o formatted_tag ELSE <<>>

----------------------------------------------------------------------------
(* is_valid_tag                                                            *)

skip_values == {MULTIPLE_CHOICE, ENGLISH, MARKDOWN, TEXT, TRUE_STR, FALSE_STR}

known_single_tags == {NIAT, POOL_1, IN_OFFLINE_EXAM, IS_PUBLIC, IS_PRIVATE}

known_prefixes == {COURSE_, MODULE_, UNIT_, SOURCE_, DIFFICULTY_, TOPIC_, SUB_TOPIC_}

\* is_valid_tag accepting every UUID-shaped string
is_valid_tag_any_uuid(raw, qid) ==
    LET s == strip(raw)
    IN  IF s = <<>> THEN FALSE
        ELSE IF upper(s) \in skip_values THEN FALSE
        ELSE IF isdigit(s) THEN FALSE
        ELSE IF UUID_REGEX_match(s) THEN TRUE
        ELSE \/ contains(s, "_")
             \/ s \in known_single_tags
             \/ \E prefix \in known_prefixes : startswith(s, prefix)

\* is_valid_tag comparing with skip_values without upper()
is_valid_tag_case_sensitive_skip(raw, qid) ==
    LET s == strip(raw)
    IN  IF s = <<>> THEN FALSE
        ELSE IF s \in skip_values THEN FALSE
        ELSE IF isdigit(s) THEN FALSE
        ELSE IF UUID_REGEX_match(s) THEN truthy(qid) /\ s = qid
        ELSE \/ contains(s, "_")
             \/ s \in known_single_tags
             \/ \E prefix \in known_prefixes : startswith(s, prefix)

is_valid_tag(raw, qid) ==
    LET s == strip(raw)
    IN  IF s = <<>> THEN FALSE
        ELSE IF upper(s) \in skip_values THEN FALSE
        ELSE IF isdigit(s) THEN FALSE
        ELSE IF UUID_REGEX_match(s) THEN truthy(qid) /\ s = qid
        ELSE \/ contains(s, "_")
             \/ s \in known_single_tags
             \/ \E prefix \in known_prefixes : startswith(s, prefix)


----------------------------------------------------------------------------
(* validate_question_tags                                                  *)

REQUIRED_TAGS_COMMON == <<NIAT, IN_OFFLINE_EXAM, POOL_1>>

REQUIRED_TAGS_DIFFICULTY == <<DIFFICULTY_EASY, DIFFICULTY_MEDIUM, DIFFICULTY_HARD>>

REQUIRED_TAGS_SOURCE == SOURCE_

\* One entry of the list `missing`: the message text, with {} where the code
\* interpolates a string, and the string interpolated (<<>> when there is none).
Issue(text, arg) == [text |-> text, arg |-> arg]


\* ", ".join(strings)
RECURSIVE join(_)
join(strings) ==
    IF Len(strings) = 0 THEN <<>>
    ELSE IF Len(strings) = 1 THEN strings[1]
    ELSE strings[1] \o <<",", " ">> \o join(Tail(strings))

\* for tag in REQUIRED_TAGS["COMMON"]: if tag not in tag_names
CommonIssues(tag_names) ==
    LET all == [i \in 1..Len(REQUIRED_TAGS_COMMON) |-> Issue("{}", REQUIRED_TAGS_COMMON[i])]
        absent(m) == m.arg \notin tag_names
    IN  SelectSeq(all, absent)

DifficultyIssues(tag_names) ==
    IF ~ \E i \in 1..Len(REQUIRED_TAGS_DIFFICULTY) : REQUIRED_TAGS_DIFFICULTY[i] \in tag_names
    THEN <<Issue("One of: {}", join(REQUIRED_TAGS_DIFFICULTY))>>
    ELSE <<>>

\* the source check as a membership test of the bare prefix
SourceIssues_exact(tag_names) ==
    IF REQUIRED_TAGS_SOURCE \notin tag_names
    THEN <<Issue("SOURCE_* (any tag starting with SOURCE_)", <<>>)>>
    ELSE <<>>

SourceIssues(tag_names) ==
    IF ~ \E tag \in tag_names : startswith(tag, REQUIRED_TAGS_SOURCE)
    THEN <<Issue("SOURCE_* (any tag starting with SOURCE_)", <<>>)>>
    ELSE <<>>

QuestionIdIssues(qid, tag_names) ==
    IF qid \notin tag_names THEN <<Issue("Question ID tag: {}", qid)>> ELSE <<>>

\* the visibility checks with the forbidden tag looked at only when the
\* required one is present (elif for the second if)
VisibilityIssues_elif(tag_names, mtype) ==
    IF mtype \in {"MCQ", "Code Analysis"}
    THEN IF IS_PUBLIC \notin tag_names THEN <<Issue("{}", IS_PUBLIC)>>
         ELSE IF IS_PRIVATE \in tag_names
              THEN <<Issue("{} (should not be present)", IS_PRIVATE)>> ELSE <<>>
    ELSE IF mtype \in {"Python Coding", "Web Coding"}
    THEN IF IS_PRIVATE \notin tag_names THEN <<Issue("{}", IS_PRIVATE)>>
         ELSE IF IS_PUBLIC \in tag_names
              THEN <<Issue("{} (should not be present)", IS_PUBLIC)>> ELSE <<>>
    ELSE <<>>

\* the visibility checks with Web Coding left out of the coding branch
VisibilityIssues_python_only(tag_names, mtype) ==
    IF mtype \in {"MCQ", "Code Analysis"}
    THEN (IF IS_PUBLIC \notin tag_names THEN <<Issue("{}", IS_PUBLIC)>> ELSE <<>>)
         \o (IF IS_PRIVATE \in tag_names
             THEN <<Issue("{} (should not be present)", IS_PRIVATE)>> ELSE <<>>)
    ELSE IF mtype \in {"Python Coding"}
    THEN (IF IS_PRIVATE \notin tag_names THEN <<Issue("{}", IS_PRIVATE)>> ELSE <<>>)
         \o (IF IS_PUBLIC \in tag_names
             THEN <<Issue("{} (should not be present)", IS_PUBLIC)>> ELSE <<>>)
    ELSE <<>>

\* Conditional tag logic
VisibilityIssues(tag_names, mtype) ==
    IF mtype \in {"MCQ", "Code Analysis"}
    THEN (IF IS_PUBLIC \notin tag_names THEN <<Issue("{}", IS_PUBLIC)>> ELSE <<>>)
         \o (IF IS_PRIVATE \in tag_names
             THEN <<Issue("{} (should not be present)", IS_PRIVATE)>> ELSE <<>>)
    ELSE IF mtype \in {"Python Coding", "Web Coding"}
    THEN (IF IS_PRIVATE \notin tag_names THEN <<Issue("{}", IS_PRIVATE)>> ELSE <<>>)
         \o (IF IS_PUBLIC \in tag_names
             THEN <<Issue("{} (should not be present)", IS_PUBLIC)>> ELSE <<>>)
    ELSE <<>>

\* the course/module/unit checks comparing without regard to case
CourseModuleUnitIssues_ignore_case(tag_names, unit, course, module) ==
    LET has(t) == \E n \in tag_names : upper(n) = upper(t)
    IN  (IF truthy(course) /\ ~has(course)
         THEN <<Issue("Course tag: {}", course)>> ELSE <<>>)
        \o (IF truthy(module) /\ ~has(module)
            THEN <<Issue("Module tag: {}", module)>> ELSE <<>>)
        \o (IF truthy(unit) /\ ~has(unit)
            THEN <<Issue("Unit tag: {}", unit)>> ELSE <<>>)

\* the course/module/unit checks reporting, for an empty configured value, a
\* tag of the tag set that has the prefix
CourseModuleUnitIssues_found_optional(tag_names, unit, course, module) ==
    LET check(configured, text, prefix) ==
            IF truthy(configured)
            THEN IF configured \notin tag_names
                 THEN <<Issue(text, configured)>> ELSE <<>>
            ELSE IF \E n \in tag_names : startswith(n, prefix)
                 THEN <<Issue("Found Optional: {}",
                              CHOOSE n \in tag_names : startswith(n, prefix))>>
                 ELSE <<>>
    IN  check(course, "Course tag: {}", COURSE_)
        \o check(module, "Module tag: {}", MODULE_)
        \o check(unit, "Unit tag: {}", UNIT_)

\* Course/module/unit
CourseModuleUnitIssues(tag_names, unit, course, module) ==
    (IF truthy(course) /\ course \notin tag_names
     THEN <<Issue("Course tag: {}", course)>> ELSE <<>>)
    \o (IF truthy(module) /\ module \notin tag_names
        THEN <<Issue("Module tag: {}", module)>> ELSE <<>>)
    \o (IF truthy(unit) /\ unit \notin tag_names
        THEN <<Issue("Unit tag: {}", unit)>> ELSE <<>>)

\* The tags on which the body of `for tag in tag_names` can append anything.
LoopTags(tag_names) ==
    {tag \in tag_names : startswith(tag, TOPIC_) \/ startswith(tag, SUB_TOPIC_)}

\* The orders in which a Python set can be iterated: every enumeration of it.
SetOrders(S) ==
    {f \in [1..Cardinality(S) -> S] : \A i, j \in 1..Cardinality(S) : f[i] = f[j] => i = j}

\* for tag in tag_names: ..., visiting the tags in the given order
RECURSIVE TopicLoop(_, _, _)
TopicLoop(order, valid_topics, valid_sub_topics) ==
    IF order = <<>> THEN <<>>
    ELSE LET tag == Head(order)
         IN  (IF startswith(tag, TOPIC_) /\ tag \notin valid_topics
              THEN <<Issue("Invalid TOPIC tag: {}", tag)>> ELSE <<>>)
             \o (IF startswith(tag, SUB_TOPIC_) /\ tag \notin valid_sub_topics
                 THEN <<Issue("Invalid SUB_TOPIC tag: {}", tag)>> ELSE <<>>)
             \o TopicLoop(Tail(order), valid_topics, valid_sub_topics)

\* the topic loop run for every module type
TopicIssues_any_module(mtype, order, valid_topics, valid_sub_topics) ==
    TopicLoop(order, valid_topics, valid_sub_topics)

TopicIssues(mtype, order, valid_topics, valid_sub_topics) ==
    IF mtype \in {"MCQ", "Code Analysis"}
    THEN TopicLoop(order, valid_topics, valid_sub_topics)
    ELSE <<>>

\* prefixes of the sequence tags
QUESTION_ == <<"Q","U","E","S","T","I","O","N","_">>

SET_ == <<"S","E","T","_">>

\* validate_question_tags with a sequence check for groups of one question:
\* every question is its own anchor and the first of its set
validate_question_tags_own_anchor(q, mtype, unit, course, module, order, valid_topics, valid_sub_topics) ==
    LET qid == get(q, "question_id", Unknown)
        tag_names == get(q, "tag_names", {})
        expected_question_tag == QUESTION_ \o SubSeq(qid, 1, IF Len(qid) < 8 THEN Len(qid) ELSE 8)
        expected_set_tag == SET_ \o <<"1">>
    IN  <<qid,
          CommonIssues(tag_names)
          \o DifficultyIssues(tag_names)
          \o SourceIssues(tag_names)
          \o QuestionIdIssues(qid, tag_names)
          \o VisibilityIssues(tag_names, mtype)
          \o CourseModuleUnitIssues(tag_names, unit, course, module)
          \o TopicIssues(mtype, order, valid_topics, valid_sub_topics)
          \o (IF expected_question_tag \notin tag_names
              THEN <<Issue("{} (based on anchor ID)", expected_question_tag)>> ELSE <<>>)
          \o (IF expected_set_tag \notin tag_names
              THEN <<Issue("{} (position in set)", expected_set_tag)>> ELSE <<>>)>>

\* validate_question_tags with the topic loop before the course/module/unit checks
validate_question_tags_topics_first(q, mtype, unit, course, module, order, valid_topics, valid_sub_topics) ==
    LET qid == get(q, "question_id", Unknown)
        tag_names == get(q, "tag_names", {})
    IN  <<qid,
          CommonIssues(tag_names)
          \o DifficultyIssues(tag_names)
          \o SourceIssues(tag_names)
          \o QuestionIdIssues(qid, tag_names)
          \o VisibilityIssues(tag_names, mtype)
          \o TopicIssues(mtype, order, valid_topics, valid_sub_topics)
          \o CourseModuleUnitIssues(tag_names, unit, course, module)>>

\* validate_question_tags(question, module_type, unit_tag, course_tag, module_tag);
\* `order` is the order in which the set tag_names is iterated (restricted to
\* LoopTags: on any other tag the loop body does nothing), valid_topics and
\* valid_sub_topics are the module globals valid_topic_tags_MCQS and
\* valid_sub_topic_tags_MCQS as the call finds them.
validate_question_tags(q, mtype, unit, course, module, order, valid_topics, valid_sub_topics) ==
    LET qid == get(q, "question_id", Unknown)
        tag_names == get(q, "tag_names", {})
    IN  <<qid,
          CommonIssues(tag_names)
          \o DifficultyIssues(tag_names)
          \o SourceIssues(tag_names)
          \o QuestionIdIssues(qid, tag_names)
          \o VisibilityIssues(tag_names, mtype)
          \o CourseModuleUnitIssues(tag_names, unit, course, module)
          \o TopicIssues(mtype, order, valid_topics, valid_sub_topics)>>

----------------------------------------------------------------------------
(* The reference catalog.                                                  *)

\* An optional value is a sequence: <<>> for Python's None, <<v>> for v.

\* get_processed_data(raw_data): {section: {topic value: sub-topic values}}.
\* The sorted list of sub-topic values is kept as the set of its elements: the
\* code reads it only through set.update().
get_processed_data(raw_data) ==
    IF raw_data = <<>> \/ "question_tags" \notin DOMAIN raw_data[1] THEN <<>>
    ELSE LET question_tags_data == raw_data[1]["question_tags"]
             topic_value(item) == get(get(item, "topic_name", <<>>), "value", None)
             subtopic_value(sub) == get(get(sub, "sub_topic_name", <<>>), "value", None)
             subtopics_values(item) ==
                 LET sub_topics_list == get(item, "sub_topics", <<>>)
                 IN  {subtopic_value(sub_topics_list[k]) : k \in 1..Len(sub_topics_list)}
                     \ {None, <<>>}
             section(items) ==
                 LET kept == {i \in 1..Len(items) : truthy(topic_value(items[i]))}
                     last(tv) == CHOOSE i \in kept :
                                    /\ topic_value(items[i]) = tv
                                    /\ \A j \in kept : topic_value(items[j]) = tv => j <= i
                 IN  [tv \in {topic_value(items[i]) : i \in kept} |->
                         subtopics_values(items[last(tv)])]
         IN  [section_key \in DOMAIN question_tags_data |->
                 section(question_tags_data[section_key])]

\* valid_topic_tags_MCQS after the module-level loop over processed_data
TopicTagsOf(processed_data) ==
    IF "CODE_ANALYSIS" \in DOMAIN processed_data
    THEN DOMAIN processed_data["CODE_ANALYSIS"]
    ELSE {}

\* valid_sub_topic_tags_MCQS after the module-level loop over processed_data
SubTopicTagsOf(processed_data) ==
    IF "CODE_ANALYSIS" \in DOMAIN processed_data
    THEN UNION {processed_data["CODE_ANALYSIS"][tv] : tv \in DOMAIN processed_data["CODE_ANALYSIS"]}
    ELSE {}

----------------------------------------------------------------------------
(* Record extraction.                                                      *)

\* pd.notna(cell): an empty cell is None
notna(cell) == cell # None

\* the tags one cell of the tag column adds to the current question
CellTags(cell, qid) ==
    LET tag == strip(cell)
    IN  IF contains(tag, "\n")
        THEN LET parts == split(tag, "\n")
             IN  {strip(parts[k]) : k \in {k \in 1..Len(parts) : is_valid_tag(parts[k], qid)}}
        ELSE IF is_valid_tag(tag, qid) THEN {tag} ELSE {}

\* the loop classifying the tags of a row with the id found in that row
RECURSIVE ExtractRows_row_id(_, _, _)
ExtractRows_row_id(rows, current_question, questions) ==
    IF rows = <<>>
    THEN questions \o current_question
    ELSE LET row == Head(rows)
             question_type == IF notna(row.type) THEN upper(strip(row.type)) ELSE <<>>
             qid == IF notna(row.id) THEN strip(row.id) ELSE <<>>
             starts == question_type = MULTIPLE_CHOICE /\ qid # <<>>
             started == IF starts
                        THEN <<[question_id |-> qid, tag_names |-> {}, type |-> "MCQ"]>>
                        ELSE current_question
             tagged == IF started # <<>> /\ notna(row.tags)
                       THEN <<[started[1] EXCEPT !.tag_names =
                                  @ \cup CellTags(row.tags, qid)]>>
                       ELSE started
         IN  ExtractRows_row_id(Tail(rows), tagged,
                         IF starts THEN questions \o current_question ELSE questions)

\* the loop of extract_mcq_data over the rows; current_question is <<>> for None
RECURSIVE ExtractRows(_, _, _)
ExtractRows(rows, current_question, questions) ==
    IF rows = <<>>
    THEN questions \o current_question
    ELSE LET row == Head(rows)
             question_type == IF notna(row.type) THEN upper(strip(row.type)) ELSE <<>>
             qid == IF notna(row.id) THEN strip(row.id) ELSE <<>>
             starts == question_type = MULTIPLE_CHOICE /\ qid # <<>>
             started == IF starts
                        THEN <<[question_id |-> qid, tag_names |-> {}, type |-> "MCQ"]>>
                        ELSE current_question
             tagged == IF started # <<>> /\ notna(row.tags)
                       THEN <<[started[1] EXCEPT !.tag_names =
                                  @ \cup CellTags(row.tags, started[1].question_id)]>>
                       ELSE started
         IN  ExtractRows(Tail(rows), tagged,
                         IF starts THEN questions \o current_question ELSE questions)

\* extract_mcq_data(uploaded_file): no question when the file cannot be read
extract_mcq_data(uploaded_file) ==
    IF uploaded_file.readable THEN ExtractRows(uploaded_file.rows, <<>>, <<>>) ELSE <<>>

\* the question dictionaries one JSON file of the archive yields
RECURSIVE FileQuestions(_)
FileQuestions(items) ==
    IF items = <<>> THEN <<>>
    ELSE LET q == Head(items)
             input_output == get(q, "input_output", <<>>)
             question_id_of == IF input_output # <<>>
                               THEN get(input_output[1], "question_id", Unknown)
                               ELSE Unknown
         IN  <<[k \in DOMAIN q \cup {"question_id"} |->
                   IF k = "question_id" THEN question_id_of ELSE q[k]]>>
             \o FileQuestions(Tail(items))

\* extract_json_files(zip_file): the files in the order os.walk yields them; a
\* file that does not decode, or whose top level is no list, yields nothing
RECURSIVE extract_json_files(_)
extract_json_files(files) ==
    IF files = <<>> THEN <<>>
    ELSE (IF Head(files).kind = "list" THEN FileQuestions(Head(files).items) ELSE <<>>)
         \o extract_json_files(Tail(files))

----------------------------------------------------------------------------
(* The Run Tag Check handler.                                              *)

\* the module type the handler infers for a question of the archive
InferModuleType(q) ==
    LET qtype == get(q, "question_type", "")
    IN  IF qtype = "CODE_ANALYSIS_MULTIPLE_CHOICE" THEN "Code Analysis"
        ELSE IF qtype = "CODING"
             THEN IF get(q, "question_format", "None") = "CODING_PRACTICE" THEN "Python Coding"
                  ELSE IF get(q, "question_format", "None") = "WEB_CODING" THEN "Web Coding"
                  ELSE "Python Coding"
        ELSE "Unknown"

\* the handler running the loop over the archive before the loop over the sheet
Batch_archive_first(mcqs, jsons) ==
    [i \in 1..Len(jsons) |-> <<jsons[i], InferModuleType(jsons[i])>>]
    \o [i \in 1..Len(mcqs) |-> <<mcqs[i], "MCQ">>]

\* the questions the two loops validate, in order, each with its module type
Batch(mcqs, jsons) ==
    [i \in 1..Len(mcqs) |-> <<mcqs[i], "MCQ">>]
    \o [i \in 1..Len(jsons) |-> <<jsons[i], InferModuleType(jsons[i])>>]

\* what the loops can append for a batch: one validate_question_tags call per
\* question, each under any iteration order of its tag set
RECURSIVE ValidateAll(_, _, _, _, _, _)
ValidateAll(batch, unit, course, module, valid_topics, valid_sub_topics) ==
    IF batch = <<>> THEN {<<>>}
    ELSE LET q == Head(batch)[1]
             mtype == Head(batch)[2]
             firsts == {validate_question_tags(q, mtype, unit, course, module, order,
                                               valid_topics, valid_sub_topics) :
                           order \in SetOrders(LoopTags(get(q, "tag_names", {})))}
         IN  {<<[question_id |-> r[1],
                 module_type |-> mtype,
                 current_tags |-> get(q, "tag_names", {}),
                 missing_tags |-> r[2],
                 has_issues |-> Len(r[2]) > 0]>> \o rest :
                 r \in firsts,
                 rest \in ValidateAll(Tail(batch), unit, course, module,
                                      valid_topics, valid_sub_topics)}

\* all_questions: the entries of validation_details that have issues
FailureReport(details) ==
    LET failed(d) == d.has_issues
        report == SelectSeq(details, failed)
    IN  [i \in 1..Len(report) |->
            [question_id |-> report[i].question_id,
             module_type |-> report[i].module_type,
             missing_tags |-> report[i].missing_tags,
             current_tags |-> report[i].current_tags]]

\* the summary: Total Questions Processed and Questions with Issues
total_questions == Len(validation_details)

issues_count == Len(all_questions)

\* the widgets of section 1: a non-empty field stores its formatted tag
Widgets(state, course, module, unit) ==
    [formatted_course_tag |->
        IF truthy(course) THEN format_tag_name(course, COURSE_) ELSE state.formatted_course_tag,
     formatted_module_tag |->
        IF truthy(module) THEN format_tag_name(module, MODULE_) ELSE state.formatted_module_tag,
     formatted_unit_tag |->
        IF truthy(unit) THEN format_tag_name(unit, UNIT_) ELSE state.formatted_unit_tag]

\* One run of the script, from top to bottom, with the given widget values;
\* `fetched` is what fetch_and_parse_json_from_url returns in this run. The
\* two cached fetches (fetch_topic_subtopic_tags_code_analysis and
\* fetch_unit_subtopic_map) are left out: nothing reads what they return.
ScriptRun(fetched, course, module, unit, mcq, zip, pressed) ==
    /\ course_input' = course
    /\ module_input' = module
    /\ unit_input' = unit
    /\ mcq_file' = mcq
    /\ json_zip_file' = zip
    /\ run_pressed' = pressed
    /\ raw_json' = fetched
    /\ valid_topic_tags_MCQS' = TopicTagsOf(get_processed_data(fetched))
    /\ valid_sub_topic_tags_MCQS' = SubTopicTagsOf(get_processed_data(fetched))
    /\ session_state' = Widgets(session_state, course, module, unit)
    /\ LET ready == /\ truthy(session_state'.formatted_course_tag)
                    /\ truthy(session_state'.formatted_module_tag)
                    /\ truthy(session_state'.formatted_unit_tag)
           uploaded == mcq # <<>> \/ zip # <<>>
       IN  IF pressed /\ ready /\ uploaded
           THEN /\ course_tag' = session_state'.formatted_course_tag
                /\ module_tag' = session_state'.formatted_module_tag
                /\ unit_tag' = session_state'.formatted_unit_tag
                /\ \E details \in
                      ValidateAll(Batch(IF mcq # <<>> THEN extract_mcq_data(mcq[1]) ELSE <<>>,
                                        IF zip # <<>> THEN extract_json_files(zip[1]) ELSE <<>>),
                                  unit_tag', course_tag', module_tag',
                                  valid_topic_tags_MCQS', valid_sub_topic_tags_MCQS') :
                      /\ validation_details' = details
                      /\ all_questions' = FailureReport(details)
                      /\ shown' =
                            (IF mcq # <<>> /\ ~mcq[1].readable
                             THEN {"Error reading uploaded file"} ELSE {})
                            \cup (IF zip # <<>>
                                     /\ \E k \in 1..Len(zip[1]) : zip[1][k].kind = "invalid"
                                  THEN {"Failed to decode JSON"} ELSE {})
                            \cup (IF FailureReport(details) # <<>>
                                  THEN {"Questions with Missing Tags"}
                                  ELSE {"All questions are properly tagged"})
           ELSE /\ course_tag' = <<>>
                /\ module_tag' = <<>>
                /\ unit_tag' = <<>>
                /\ validation_details' = <<>>
                /\ all_questions' = <<>>
                /\ shown' =
                      (IF pressed /\ ~ready
                       THEN {"Please provide Course, Module, and Unit names"} ELSE {})
                      \cup (IF pressed /\ ready /\ ~uploaded
                            THEN {"Please upload at least one file"} ELSE {})
    /\ UNCHANGED <<classifier_vars, question, module_type, missing, format_vars,
                   extract_vars, pc>>

----------------------------------------------------------------------------
(* Inputs of the checks.                                                   *)

COMPANY_ == <<"C","O","M","P","A","N","Y","_">>
Qid1 == <<"1","1","1","1","1","1","1","1","-","2","2","2","2","-","4","3","3","3","-","8","4","4","4","-","5","5","5","5","5","5","5","5","5","5","5","5">>
Qid2 == <<"a","a","a","a","a","a","a","a","-","b","b","b","b","-","4","c","c","c","-","9","d","d","d","-","e","e","e","e","e","e","e","e","e","e","e","e">>
Qid1Padded == <<" ","1","1","1","1","1","1","1","1","-","2","2","2","2","-","4","3","3","3","-","8","4","4","4","-","5","5","5","5","5","5","5","5","5","5","5","5"," ">>
Qid1Newline == <<"1","1","1","1","1","1","1","1","-","2","2","2","2","-","4","3","3","3","-","8","4","4","4","-","5","5","5","5","5","5","5","5","5","5","5","5","\n">>
BadVersionId == <<"1","1","1","1","1","1","1","1","-","2","2","2","2","-","6","3","3","3","-","8","4","4","4","-","5","5","5","5","5","5","5","5","5","5","5","5">>
BadVariantId == <<"1","1","1","1","1","1","1","1","-","2","2","2","2","-","4","3","3","3","-","c","4","4","4","-","5","5","5","5","5","5","5","5","5","5","5","5">>
SOURCE_GPT == <<"S","O","U","R","C","E","_","G","P","T">>
COURSE_PYTHON == <<"C","O","U","R","S","E","_","P","Y","T","H","O","N">>
COURSE_Python == <<"C","O","U","R","S","E","_","P","y","t","h","o","n">>
MODULE_LOOPING == <<"M","O","D","U","L","E","_","L","O","O","P","I","N","G">>
UNIT_NESTED_CONDITIONS == <<"U","N","I","T","_","N","E","S","T","E","D","_","C","O","N","D","I","T","I","O","N","S">>
COMPANY_ACME == <<"C","O","M","P","A","N","Y","_","A","C","M","E">>
QUESTION_11111111 == <<"Q","U","E","S","T","I","O","N","_","1","1","1","1","1","1","1","1">>
SET_1 == <<"S","E","T","_","1">>
TOPIC_A == <<"T","O","P","I","C","_","A">>
TOPIC_B == <<"T","O","P","I","C","_","B">>
SUB_TOPIC_A == <<"S","U","B","_","T","O","P","I","C","_","A">>
SUB_TOPIC_B == <<"S","U","B","_","T","O","P","I","C","_","B">>
multiple_choice == <<"m","u","l","t","i","p","l","e","_","c","h","o","i","c","e">>
Multiple_Choice == <<"M","u","l","t","i","p","l","e","_","C","h","o","i","c","e">>
english == <<"e","n","g","l","i","s","h">>
true_str == <<"t","r","u","e">>
False_str == <<"F","a","l","s","e">>
abc_123 == <<"a","b","c","-","1","2","3">>
digits12345 == <<"1","2","3","4","5">>
niat == <<"n","i","a","t">>
NIATX == <<"N","I","A","T","X">>
PaddedNIAT == <<" ","N","I","A","T"," ">>

MaxLen == 3

TagAlphabet == {"a", "T", "1", "_", "-", " "}

\* every string over TagAlphabet of length at most MaxLen
ShortStrings == UNION {[1..n -> TagAlphabet] : n \in 0..MaxLen}

NamedStrings ==
    {Qid1, Qid2, Qid1Padded, Qid1Newline, BadVersionId, BadVariantId,
     MULTIPLE_CHOICE, multiple_choice, Multiple_Choice, ENGLISH, english,
     MARKDOWN, TEXT, TRUE_STR, true_str, FALSE_STR, False_str,
     NIAT, niat, NIATX, PaddedNIAT, POOL_1, IN_OFFLINE_EXAM, IS_PUBLIC, IS_PRIVATE,
     SOURCE_GPT, COURSE_PYTHON, COURSE_Python, MODULE_LOOPING,
     UNIT_NESTED_CONDITIONS, DIFFICULTY_EASY, TOPIC_A, SUB_TOPIC_A,
     COMPANY_ACME, QUESTION_11111111, SET_1, abc_123, digits12345, Unknown}

TagInputs == ShortStrings \cup NamedStrings

QidInputs == {None, <<>>, Qid1, Qid2, digits12345, <<"1">>, Unknown}


\* The record of the spec's end-to-end scenario 1: every required tag present.
BaseTags == {NIAT, IN_OFFLINE_EXAM, POOL_1, DIFFICULTY_EASY, SOURCE_GPT, Qid1, IS_PUBLIC}

ExtraTags ==
    {IS_PRIVATE, DIFFICULTY_HARD, TOPIC_A, TOPIC_B, SUB_TOPIC_A, SUB_TOPIC_B,
     COURSE_PYTHON, COURSE_Python, MODULE_LOOPING, UNIT_NESTED_CONDITIONS,
     COMPANY_ACME, Qid2}

\* how many tags a tag set may differ from BaseTags by (dropped or added)
MaxChanged == 3

TagSets ==
    {(BaseTags \ D) \cup A :
        <<D, A>> \in {c \in (SUBSET BaseTags) \X (SUBSET ExtraTags) :
                        Cardinality(c[1]) + Cardinality(c[2]) <= MaxChanged}}

\* question dictionaries: with a question_id, and (archive records) without one
Questions ==
    {[question_id |-> Qid1, tag_names |-> T] : T \in TagSets}
    \cup {[tag_names |-> T] : T \in {BaseTags, BaseTags \cup {Unknown}}}

ModuleTypes ==
    {"MCQ", "Code Analysis", "Python Coding", "Web Coding", "SQL Coding", "Coding", "Unknown"}

\* the valid tags extracted from the catalog: none, or one topic with one sub-topic
Catalogs == {<<{}, {}>>, <<{TOPIC_A}, {SUB_TOPIC_A}>>}

Python == <<"P","y","t","h","o","n">>
Blank == <<" ">>
Looping == <<"L","o","o","p","i","n","g">>
Nested_Conditions == <<"N","e","s","t","e","d"," ","C","o","n","d","i","t","i","o","n","s">>
GoodCell == <<"N","I","A","T","\n","I","N","_","O","F","F","L","I","N","E","_","E","X","A","M","\n","P","O","O","L","_","1","\n","D","I","F","F","I","C","U","L","T","Y","_","E","A","S","Y","\n","S","O","U","R","C","E","_","G","P","T","\n","1","1","1","1","1","1","1","1","-","2","2","2","2","-","4","3","3","3","-","8","4","4","4","-","5","5","5","5","5","5","5","5","5","5","5","5","\n","I","S","_","P","U","B","L","I","C","\n","C","O","U","R","S","E","_","P","y","t","h","o","n","\n","M","O","D","U","L","E","_","L","o","o","p","i","n","g","\n","U","N","I","T","_","N","e","s","t","e","d","_","C","o","n","d","i","t","i","o","n","s","\n","T","O","P","I","C","_","A">>
NoisyCell == <<" ","T","O","P","I","C","_","B"," ","\n","1","2","3","4","5","\n","T","R","U","E","\n","a","a","a","a","a","a","a","a","-","b","b","b","b","-","4","c","c","c","-","9","d","d","d","-","e","e","e","e","e","e","e","e","e","e","e","e">>
multiple_choice_padded == <<" ","m","u","l","t","i","p","l","e","_","c","h","o","i","c","e"," ">>

MODULE_Looping == <<"M","O","D","U","L","E","_","L","o","o","p","i","n","g">>
UNIT_Nested_Conditions == <<"U","N","I","T","_","N","e","s","t","e","d","_","C","o","n","d","i","t","i","o","n","s">>

\* what the Course, Module and Unit fields are edited to
CourseInputs == {<<>>, Python, Blank}

ModuleInputs == {<<>>, Looping}

UnitInputs == {<<>>, Nested_Conditions}

\* catalog documents: a topic of CODE_ANALYSIS with one sub-topic and one with
\* no value, a section of another module; and a document without question_tags
CatalogDocument ==
    [question_tags |->
        [CODE_ANALYSIS |->
            <<[topic_name |-> [value |-> TOPIC_A],
               sub_topics |-> <<[sub_topic_name |-> [value |-> SUB_TOPIC_A]],
                                [sub_topic_name |-> [value |-> <<>>]]>>],
              [topic_name |-> [label |-> TOPIC_B],
               sub_topics |-> <<[sub_topic_name |-> [value |-> SUB_TOPIC_B]]>>]>>,
         CODING |->
            <<[topic_name |-> [value |-> TOPIC_B],
               sub_topics |-> <<[sub_topic_name |-> [value |-> SUB_TOPIC_B]]>>]>>]]

OtherDocument == [data |-> <<>>]

\* what fetch_and_parse_json_from_url returns: None, or the document parsed
FetchOutcomes == {<<>>, <<CatalogDocument>>, <<OtherDocument>>}

\* rows of the spreadsheet: the id, type and tag columns (None: an empty cell)
Row(id, type, cell) == [id |-> id, type |-> type, tags |-> cell]

\* the spreadsheets uploaded: none, one that cannot be read, one question, and
\* two questions with a tag row before the first and continuation rows
McqInputs ==
    {<<>>,
     <<[readable |-> FALSE, rows |-> <<>>]>>,
     <<[readable |-> TRUE, rows |-> <<Row(Qid1, MULTIPLE_CHOICE, GoodCell)>>]>>,
     <<[readable |-> TRUE,
        rows |-> <<Row(None, None, IS_PRIVATE),
                   Row(Qid1, MULTIPLE_CHOICE, GoodCell),
                   Row(None, MULTIPLE_CHOICE, SUB_TOPIC_B),
                   Row(Qid2, multiple_choice_padded, None),
                   Row(None, None, NoisyCell)>>]>>}

\* questions of the archive (tag_names: the JSON array, as the set
\* validate_question_tags makes of it)
CodeAnalysisQuestion ==
    [question_type |-> "CODE_ANALYSIS_MULTIPLE_CHOICE",
     input_output |-> <<[question_id |-> Qid2]>>,
     tag_names |-> {NIAT, IN_OFFLINE_EXAM, POOL_1, DIFFICULTY_HARD, SOURCE_GPT, Qid2,
                    IS_PUBLIC, COURSE_Python, MODULE_Looping, UNIT_Nested_Conditions,
                    TOPIC_A, SUB_TOPIC_A}]

PythonQuestion ==
    [question_type |-> "CODING",
     question_format |-> "CODING_PRACTICE",
     input_output |-> <<[input |-> <<"1">>]>>,
     tag_names |-> {NIAT, POOL_1, Unknown, IS_PUBLIC, TOPIC_B}]

WebQuestion ==
    [question_type |-> "CODING",
     question_format |-> "WEB_CODING",
     tag_names |-> {NIAT, IN_OFFLINE_EXAM, POOL_1, DIFFICULTY_EASY, SOURCE_GPT, Unknown,
                    IS_PRIVATE, COURSE_Python, MODULE_Looping, UNIT_Nested_Conditions}]

OtherQuestion == [question_type |-> "SQL", tag_names |-> {IS_PUBLIC, SUB_TOPIC_B}]

ListFile(items) == [kind |-> "list", items |-> items]

ZipInputs ==
    {<<>>,
     <<<<ListFile(<<CodeAnalysisQuestion>>)>>>>,
     <<<<ListFile(<<PythonQuestion, WebQuestion>>), [kind |-> "invalid"]>>>>,
     <<<<[kind |-> "object"], ListFile(<<OtherQuestion>>)>>>>}

----------------------------------------------------------------------------
(* The tag classifier on its own: one call of is_valid_tag.                *)

IdleEngine ==
    /\ question = [question_id |-> Qid1, tag_names |-> {}]
    /\ module_type = "Unknown"
    /\ unit_tag = <<>>
    /\ course_tag = <<>>
    /\ module_tag = <<>>
    /\ missing = <<>>

IdleClassifier ==
    /\ tag_str = <<>>
    /\ question_id = None
    /\ accepted = FALSE

IdleFormat ==
    /\ name_input = <<>>
    /\ name_prefix = <<>>
    /\ formatted = <<>>

IdleExtract ==
    /\ sheet = [readable |-> TRUE, rows |-> <<>>]
    /\ extracted = <<>>

IdleApp ==
    /\ raw_json = <<>>
    /\ session_state = [formatted_course_tag |-> <<>>, formatted_module_tag |-> <<>>,
                        formatted_unit_tag |-> <<>>]
    /\ course_input = <<>>
    /\ module_input = <<>>
    /\ unit_input = <<>>
    /\ mcq_file = <<>>
    /\ json_zip_file = <<>>
    /\ run_pressed = FALSE
    /\ validation_details = <<>>
    /\ all_questions = <<>>
    /\ shown = {}

InitTag ==
    /\ tag_str \in TagInputs
    /\ question_id \in QidInputs
    /\ accepted = FALSE
    /\ IdleEngine
    /\ IdleApp
    /\ IdleFormat
    /\ IdleExtract
    /\ valid_topic_tags_MCQS = {}
    /\ valid_sub_topic_tags_MCQS = {}
    /\ pc = "call"

CallIsValidTag ==
    /\ pc = "call"
    /\ accepted' = is_valid_tag(tag_str, question_id)
    /\ pc' = "done"
    /\ UNCHANGED <<tag_str, question_id, engine_vars, catalog_vars, app_vars,
                   format_vars, extract_vars>>

NextTag == CallIsValidTag

SpecTag == InitTag /\ [][NextTag]_vars

----------------------------------------------------------------------------
(* Properties of is_valid_tag, checked under SpecTag.                      *)

\* the canonical UUID shape: 8-4-4-4-12 hexadecimal groups, the version
\* nibble in 1..5 and the variant nibble one of 8, 9, a, b (either case)
CanonicalUuidShape(s) ==
    /\ Len(s) = 36
    /\ s[9] = "-" /\ s[14] = "-" /\ s[19] = "-" /\ s[24] = "-"
    /\ \A i \in (1..36) \ {9, 14, 19, 24} : s[i] \in HexChars
    /\ s[15] \in {"1", "2", "3", "4", "5"}
    /\ upper(<<s[20]>>) \in {<<"8">>, <<"9">>, <<"A">>, <<"B">>}

\* C8: on a string of canonical UUID shape is_valid_tag returns true exactly
\* when a question id is given and equals that string: false when none is
\* given and when a different id is given.
C8_UuidOnlyOwnId ==
    (pc = "done" /\ CanonicalUuidShape(tag_str)) =>
        (accepted <=> (question_id # None /\ question_id = tag_str))

C8_Witness ==
    /\ pc = "done"
    /\ tag_str = Qid1
    /\ question_id = Qid1
    /\ accepted

\* the noise literals, the single tags and the prefixes the claim C9 names
NoiseLiterals == {MULTIPLE_CHOICE, ENGLISH, MARKDOWN, TEXT, TRUE_STR, FALSE_STR}

SingleTags == {NIAT, POOL_1, IN_OFFLINE_EXAM, IS_PUBLIC, IS_PRIVATE}

Prefixes ==
    {COURSE_, MODULE_, UNIT_, SOURCE_, DIFFICULTY_, TOPIC_, SUB_TOPIC_,
     COMPANY_, QUESTION_, SET_}

\* C9: on a string whose trimmed form is not UUID-shaped, is_valid_tag returns
\* false when the trimmed string is empty, is one of the noise literals in any
\* case, or consists of digits only (even when it is the question id);
\* otherwise it returns true exactly when the string contains an underscore,
\* is one of the single tags, or starts with one of the prefixes.
C9_NonUuidRule ==
    LET t == strip(tag_str)
    IN  (pc = "done" /\ ~CanonicalUuidShape(t)) =>
            (accepted <=>
                /\ t # <<>>
                /\ upper(t) \notin NoiseLiterals
                /\ ~ \A i \in 1..Len(t) : t[i] \in DigitChars
                /\ \/ \E i \in 1..Len(t) : t[i] = "_"
                   \/ t \in SingleTags
                   \/ \E p \in Prefixes : startswith(t, p))

C9_Witness ==
    /\ pc = "done"
    /\ tag_str = Multiple_Choice
    /\ question_id = Qid1
    /\ ~accepted

----------------------------------------------------------------------------
(* The rule engine on its own: one call of validate_question_tags.         *)

InitValidate ==
    /\ IdleClassifier
    /\ IdleApp
    /\ IdleFormat
    /\ IdleExtract
    /\ question \in Questions
    /\ module_type \in ModuleTypes
    /\ unit_tag \in {<<>>, UNIT_NESTED_CONDITIONS}
    /\ course_tag \in {<<>>, COURSE_PYTHON}
    /\ module_tag \in {<<>>, MODULE_LOOPING}
    /\ missing = <<>>
    /\ \E c \in Catalogs :
          /\ valid_topic_tags_MCQS = c[1]
          /\ valid_sub_topic_tags_MCQS = c[2]
    /\ pc = "call"

CallValidate ==
    /\ pc = "call"
    /\ \E order \in SetOrders(LoopTags(get(question, "tag_names", {}))) :
          missing' = validate_question_tags(question, module_type, unit_tag,
                                            course_tag, module_tag, order,
                                            valid_topic_tags_MCQS,
                                            valid_sub_topic_tags_MCQS)[2]
    /\ pc' = "done"
    /\ UNCHANGED <<classifier_vars, question, module_type, unit_tag, course_tag,
                   module_tag, catalog_vars, app_vars, format_vars, extract_vars>>

NextValidate == CallValidate

SpecValidate == InitValidate /\ [][NextValidate]_vars

----------------------------------------------------------------------------
(* The application: script runs of the Streamlit page.                     *)

\* The state after the first script run of a session: nothing typed, nothing
\* uploaded, the catalog fetched (or not).
Init ==
    /\ IdleClassifier
    /\ IdleEngine
    /\ IdleFormat
    /\ IdleExtract
    /\ pc = "script"
    /\ raw_json \in FetchOutcomes
    /\ valid_topic_tags_MCQS = TopicTagsOf(get_processed_data(raw_json))
    /\ valid_sub_topic_tags_MCQS = SubTopicTagsOf(get_processed_data(raw_json))
    /\ session_state = [formatted_course_tag |-> <<>>, formatted_module_tag |-> <<>>,
                        formatted_unit_tag |-> <<>>]
    /\ course_input = <<>>
    /\ module_input = <<>>
    /\ unit_input = <<>>
    /\ mcq_file = <<>>
    /\ json_zip_file = <<>>
    /\ run_pressed = FALSE
    /\ validation_details = <<>>
    /\ all_questions = <<>>
    /\ shown = {}

EditCourse ==
    \E fetched \in FetchOutcomes, text \in CourseInputs \ {course_input} :
        ScriptRun(fetched, text, module_input, unit_input, mcq_file, json_zip_file, FALSE)

EditModule ==
    \E fetched \in FetchOutcomes, text \in ModuleInputs \ {module_input} :
        ScriptRun(fetched, course_input, text, unit_input, mcq_file, json_zip_file, FALSE)

EditUnit ==
    \E fetched \in FetchOutcomes, text \in UnitInputs \ {unit_input} :
        ScriptRun(fetched, course_input, module_input, text, mcq_file, json_zip_file, FALSE)

UploadMcq ==
    \E fetched \in FetchOutcomes, file \in McqInputs \ {mcq_file} :
        ScriptRun(fetched, course_input, module_input, unit_input, file, json_zip_file, FALSE)

UploadZip ==
    \E fetched \in FetchOutcomes, file \in ZipInputs \ {json_zip_file} :
        ScriptRun(fetched, course_input, module_input, unit_input, mcq_file, file, FALSE)

PressRun ==
    \E fetched \in FetchOutcomes :
        ScriptRun(fetched, course_input, module_input, unit_input, mcq_file,
                  json_zip_file, TRUE)

Next == EditCourse \/ EditModule \/ EditUnit \/ UploadMcq \/ UploadZip \/ PressRun

Spec == Init /\ [][Next]_vars

----------------------------------------------------------------------------
(* Properties of the application, checked under Spec.                      *)

\* C10: when the reference catalog could not be loaded (the fetch or the JSON
\* decoding failed, so that raw_json is None), a press of Run validates no
\* record: the rule engine is never run against an empty catalog put in its
\* place.
C10_AsStated ==
    (run_pressed /\ raw_json = <<>>) => validation_details = <<>>

----------------------------------------------------------------------------
(* Properties of validate_question_tags, checked under SpecValidate.       *)

\* the tag set and the identifier validate_question_tags reads from `question`
tags == get(question, "tag_names", {})

qid_of_question == get(question, "question_id", Unknown)

\* how many times the issue m is in the list returned
Occurrences(m) == Cardinality({i \in 1..Len(missing) : missing[i] = m})

\* 1 when the condition holds, 0 otherwise
OneIf(cond) == IF cond THEN 1 ELSE 0

\* the issues that name the tag t
About(t) == {i \in 1..Len(missing) : missing[i].arg = t}

MissingTag(t) == Issue("{}", t)

ShouldNotBePresent(t) == Issue("{} (should not be present)", t)

\* C1: for module_type MCQ or Code Analysis there is a Missing issue for
\* IS_PUBLIC exactly when IS_PUBLIC is absent and an Invalid issue for
\* IS_PRIVATE exactly when IS_PRIVATE is present; with both tags present there
\* is exactly one issue about IS_PRIVATE and none about IS_PUBLIC.
C1_PublicVisibility ==
    (pc = "done" /\ module_type \in {"MCQ", "Code Analysis"}) =>
        /\ Occurrences(MissingTag(IS_PUBLIC)) = OneIf(IS_PUBLIC \notin tags)
        /\ Occurrences(ShouldNotBePresent(IS_PRIVATE)) = OneIf(IS_PRIVATE \in tags)
        /\ (IS_PUBLIC \in tags /\ IS_PRIVATE \in tags) =>
              /\ Cardinality(About(IS_PRIVATE)) = 1
              /\ About(IS_PUBLIC) = {}

C1_Witness ==
    /\ pc = "done"
    /\ module_type = "MCQ"
    /\ IS_PUBLIC \in tags
    /\ IS_PRIVATE \in tags
    /\ \E i \in 1..Len(missing) : missing[i] = ShouldNotBePresent(IS_PRIVATE)

\* the visibility rule of the coding branch, for a given family of module types
PrivateVisibility(family) ==
    pc = "done" =>
        /\ module_type \in family =>
              /\ IS_PRIVATE \notin tags => Occurrences(MissingTag(IS_PRIVATE)) = 1
              /\ IS_PUBLIC \in tags => Occurrences(ShouldNotBePresent(IS_PUBLIC)) = 1
        /\ module_type \notin (family \cup {"MCQ", "Code Analysis"}) =>
              About(IS_PUBLIC) \cup About(IS_PRIVATE) = {}

\* C2 as stated: every coding-family module_type (Python Coding, Web Coding,
\* SQL Coding, Coding) gets Missing IS_PRIVATE when IS_PRIVATE is absent and
\* Invalid IS_PUBLIC when IS_PUBLIC is present; any other module_type outside
\* MCQ and Code Analysis gets no visibility issue.
C2_AsStated == PrivateVisibility({"Python Coding", "Web Coding", "SQL Coding", "Coding"})

\* C2 (amended): the module types Python Coding and Web Coding get Missing
\* IS_PRIVATE when IS_PRIVATE is absent and Invalid IS_PUBLIC when IS_PUBLIC is
\* present; every other module_type outside MCQ and Code Analysis (SQL Coding,
\* Coding and Unknown among them) gets no visibility issue.
C2_PrivateVisibility == PrivateVisibility({"Python Coding", "Web Coding"})

C2_Witness ==
    /\ pc = "done"
    /\ module_type = "Web Coding"
    /\ IS_PRIVATE \notin tags
    /\ IS_PUBLIC \in tags
    /\ Occurrences(MissingTag(IS_PRIVATE)) = 1
    /\ Occurrences(ShouldNotBePresent(IS_PUBLIC)) = 1

InvalidTopic(t) == Issue("Invalid TOPIC tag: {}", t)

InvalidSubTopic(t) == Issue("Invalid SUB_TOPIC tag: {}", t)

TopicTexts == {"Invalid TOPIC tag: {}", "Invalid SUB_TOPIC tag: {}"}

\* one Invalid issue for each TOPIC_ tag outside validTopics and each SUB_TOPIC_
\* tag outside validSubTopics, and no other topic issue
TopicsChecked(validTopics, validSubTopics) ==
    /\ \A t \in tags :
          /\ Occurrences(InvalidTopic(t))
                = OneIf(startswith(t, TOPIC_) /\ t \notin validTopics)
          /\ Occurrences(InvalidSubTopic(t))
                = OneIf(startswith(t, SUB_TOPIC_) /\ t \notin validSubTopics)
    /\ \A i \in 1..Len(missing) : missing[i].text \in TopicTexts => missing[i].arg \in tags

\* C3 as stated, for the module types whose catalog entry the model holds: MCQ
\* and Code Analysis (the CODE_ANALYSIS sets) and Unknown, which the catalog
\* does not recognise, so that its valid sets are empty and every TOPIC_ or
\* SUB_TOPIC_ tag present is reported Invalid.
C3_AsStated ==
    pc = "done" =>
        /\ module_type \in {"MCQ", "Code Analysis"} =>
              TopicsChecked(valid_topic_tags_MCQS, valid_sub_topic_tags_MCQS)
        /\ module_type = "Unknown" => TopicsChecked({}, {})

\* C3 (amended): for module_type MCQ or Code Analysis there is one Invalid
\* issue for each tag that starts with TOPIC_ and is not a valid topic tag, and
\* one for each tag that starts with SUB_TOPIC_ and is not a valid sub-topic
\* tag; for every other module_type no topic or sub-topic issue is reported.
C3_TopicMembership ==
    pc = "done" =>
        IF module_type \in {"MCQ", "Code Analysis"}
        THEN TopicsChecked(valid_topic_tags_MCQS, valid_sub_topic_tags_MCQS)
        ELSE \A i \in 1..Len(missing) : missing[i].text \notin TopicTexts

C3_Witness ==
    /\ pc = "done"
    /\ module_type = "Code Analysis"
    /\ {TOPIC_A, TOPIC_B, SUB_TOPIC_B} \subseteq tags
    /\ TOPIC_A \in valid_topic_tags_MCQS
    /\ Occurrences(InvalidTopic(TOPIC_B)) = 1
    /\ Occurrences(InvalidSubTopic(SUB_TOPIC_B)) = 1
    /\ Occurrences(InvalidTopic(TOPIC_A)) = 0

OptionalPrefixes == {COURSE_, MODULE_, UNIT_, COMPANY_}

NoOptionalConfigured == course_tag = <<>> /\ module_tag = <<>> /\ unit_tag = <<>>

\* C4: an MCQ record without COURSE_/MODULE_/UNIT_/COMPANY_ tags, validated
\* with every optional tag empty, has an empty issue list if and only if it
\* holds NIAT, IN_OFFLINE_EXAM, POOL_1, a difficulty tag, a SOURCE_ tag, its
\* own question_id, IS_PUBLIC and not IS_PRIVATE, and only valid TOPIC_ and
\* SUB_TOPIC_ tags.
C4_PassesIffComplete ==
    (/\ pc = "done"
     /\ module_type = "MCQ"
     /\ NoOptionalConfigured
     /\ \A t \in tags : \A p \in OptionalPrefixes : ~startswith(t, p)) =>
        (missing = <<>>
         <=> /\ {NIAT, IN_OFFLINE_EXAM, POOL_1} \subseteq tags
             /\ {DIFFICULTY_EASY, DIFFICULTY_MEDIUM, DIFFICULTY_HARD} \cap tags # {}
             /\ \E t \in tags : startswith(t, SOURCE_)
             /\ qid_of_question \in tags
             /\ IS_PUBLIC \in tags
             /\ IS_PRIVATE \notin tags
             /\ \A t \in tags :
                   /\ startswith(t, TOPIC_) => t \in valid_topic_tags_MCQS
                   /\ startswith(t, SUB_TOPIC_) => t \in valid_sub_topic_tags_MCQS)

C4_Witness ==
    /\ pc = "done"
    /\ module_type = "MCQ"
    /\ NoOptionalConfigured
    /\ tags = BaseTags \cup {TOPIC_A}
    /\ qid_of_question = Qid1
    /\ missing = <<>>

\* the Missing issue of one optional tag: there exactly when the configured
\* value is non-empty and not a member of the tag set
OptionalChecked(configured, text) ==
    /\ Occurrences(Issue(text, configured))
          = OneIf(configured # <<>> /\ configured \notin tags)
    /\ configured = <<>> => \A i \in 1..Len(missing) : missing[i].text # text

\* C5: for each of the course, module and unit tags, a non-empty configured
\* value gives a Missing issue exactly when that exact string is not in the
\* tag set, and an empty one gives no Missing issue for that optional tag.
C5_OptionalPresence ==
    pc = "done" =>
        /\ OptionalChecked(course_tag, "Course tag: {}")
        /\ OptionalChecked(module_tag, "Module tag: {}")
        /\ OptionalChecked(unit_tag, "Unit tag: {}")

C5_Witness ==
    /\ pc = "done"
    /\ course_tag = COURSE_PYTHON
    /\ COURSE_Python \in tags
    /\ COURSE_PYTHON \notin tags
    /\ Occurrences(Issue("Course tag: {}", COURSE_PYTHON)) = 1
    /\ module_tag = MODULE_LOOPING
    /\ MODULE_LOOPING \in tags
    /\ unit_tag = <<>>

FoundOptional(t) == Issue("Found Optional: {}", t)

\* some tag of the tag set with the prefix is reported as Found Optional
SurpriseReported(prefix) ==
    (\E t \in tags : startswith(t, prefix)) =>
        \E t \in tags : startswith(t, prefix) /\ Occurrences(FoundOptional(t)) >= 1

\* C6 as stated: with an optional tag configured empty, a tag of the tag set
\* with the corresponding prefix is reported as 'Found Optional: <tag>'.
C6_AsStated ==
    pc = "done" =>
        /\ course_tag = <<>> => SurpriseReported(COURSE_)
        /\ module_tag = <<>> => SurpriseReported(MODULE_)
        /\ unit_tag = <<>> => SurpriseReported(UNIT_)

\* no issue names a tag with the prefix
NothingAbout(prefix) == \A i \in 1..Len(missing) : ~startswith(missing[i].arg, prefix)

\* C6 (amended): with the course, module or unit tag configured empty, no
\* issue at all is reported for a tag with the corresponding prefix (COURSE_,
\* MODULE_, UNIT_); there is no company tag, no tag with the prefix COMPANY_
\* is ever reported, and no 'Found Optional' issue exists.
C6_NoOptionalSurprise ==
    pc = "done" =>
        /\ course_tag = <<>> => NothingAbout(COURSE_)
        /\ module_tag = <<>> => NothingAbout(MODULE_)
        /\ unit_tag = <<>> => NothingAbout(UNIT_)
        /\ NothingAbout(COMPANY_)
        /\ \A i \in 1..Len(missing) : missing[i].text # "Found Optional: {}"

C6_Witness ==
    /\ pc = "done"
    /\ module_type = "MCQ"
    /\ NoOptionalConfigured
    /\ tags = BaseTags \cup {COURSE_PYTHON, COMPANY_ACME}
    /\ missing = <<>>

\* the position of an issue in the order of the checks of the code
Rank(m) ==
    IF m = MissingTag(NIAT) THEN 1
    ELSE IF m = MissingTag(IN_OFFLINE_EXAM) THEN 2
    ELSE IF m = MissingTag(POOL_1) THEN 3
    ELSE IF m.text = "One of: {}" THEN 4
    ELSE IF m.text = "SOURCE_* (any tag starting with SOURCE_)" THEN 5
    ELSE IF m.text = "Question ID tag: {}" THEN 6
    ELSE IF m.text = "{}" THEN 7
    ELSE IF m.text = "{} (should not be present)" THEN 8
    ELSE IF m.text = "Course tag: {}" THEN 9
    ELSE IF m.text = "Module tag: {}" THEN 10
    ELSE IF m.text = "Unit tag: {}" THEN 11
    ELSE 12

OptionalTexts == {"Course tag: {}", "Module tag: {}", "Unit tag: {}"}

\* every check reports what it finds, whatever the other checks found
NoShortCircuit ==
    /\ \A i \in 1..Len(REQUIRED_TAGS_COMMON) :
          Occurrences(MissingTag(REQUIRED_TAGS_COMMON[i]))
             = OneIf(REQUIRED_TAGS_COMMON[i] \notin tags)
    /\ (\E i \in 1..Len(missing) : missing[i].text = "One of: {}")
          <=> {DIFFICULTY_EASY, DIFFICULTY_MEDIUM, DIFFICULTY_HARD} \cap tags = {}
    /\ (\E i \in 1..Len(missing) : missing[i].text = "SOURCE_* (any tag starting with SOURCE_)")
          <=> ~ \E t \in tags : startswith(t, SOURCE_)
    /\ Occurrences(Issue("Question ID tag: {}", qid_of_question))
          = OneIf(qid_of_question \notin tags)
    /\ module_type \in {"MCQ", "Code Analysis"} =>
          /\ Occurrences(MissingTag(IS_PUBLIC)) = OneIf(IS_PUBLIC \notin tags)
          /\ Occurrences(ShouldNotBePresent(IS_PRIVATE)) = OneIf(IS_PRIVATE \in tags)
          /\ TopicsChecked(valid_topic_tags_MCQS, valid_sub_topic_tags_MCQS)
    /\ module_type \in {"Python Coding", "Web Coding"} =>
          /\ Occurrences(MissingTag(IS_PRIVATE)) = OneIf(IS_PRIVATE \notin tags)
          /\ Occurrences(ShouldNotBePresent(IS_PUBLIC)) = OneIf(IS_PUBLIC \in tags)
    /\ OptionalChecked(course_tag, "Course tag: {}")
    /\ OptionalChecked(module_tag, "Module tag: {}")
    /\ OptionalChecked(unit_tag, "Unit tag: {}")

\* C7 as stated, its particular case: every Invalid TOPIC_/SUB_TOPIC_ issue
\* precedes every Missing course/module/unit issue.
C7_AsStated ==
    pc = "done" =>
        \A i, j \in 1..Len(missing) :
            (missing[i].text \in TopicTexts /\ missing[j].text \in OptionalTexts) => i < j

\* C7 (amended): the issue list follows the order of the checks, none of which
\* is skipped because an earlier one failed: common required tags, difficulty,
\* source, identity, visibility, then the course, module and unit tags, then
\* topic/sub-topic membership; so every Missing course/module/unit issue
\* precedes every Invalid TOPIC_/SUB_TOPIC_ issue.
C7_CheckOrder ==
    pc = "done" =>
        /\ \A i, j \in 1..Len(missing) :
              i < j => \/ Rank(missing[i]) < Rank(missing[j])
                       \/ Rank(missing[i]) = 12 /\ Rank(missing[j]) = 12
        /\ \A i, j \in 1..Len(missing) :
              (missing[i].text \in OptionalTexts /\ missing[j].text \in TopicTexts) => i < j
        /\ NoShortCircuit

C7_Witness ==
    /\ pc = "done"
    /\ module_type = "MCQ"
    /\ Len(missing) = 4
    /\ missing[1] = MissingTag(NIAT)
    /\ missing[2] = Issue("Course tag: {}", COURSE_PYTHON)
    /\ missing[3] = InvalidSubTopic(SUB_TOPIC_B)
    /\ missing[4] = InvalidTopic(TOPIC_B)

----------------------------------------------------------------------------
(* Properties of a batch run (under Spec).                                 *)

\* the last script run was a press of Run Tag Check that validated its uploads
Validated == run_pressed /\ course_tag # <<>>

\* the records of the uploads, as the extractors yield them
SheetRecords == IF mcq_file # <<>> THEN extract_mcq_data(mcq_file[1]) ELSE <<>>

ArchiveRecords ==
    IF json_zip_file # <<>> THEN extract_json_files(json_zip_file[1]) ELSE <<>>

UploadOrder == SheetRecords \o ArchiveRecords

\* positions of the result entries whose issue list is non-empty
FailedPositions == {i \in 1..Len(validation_details) : validation_details[i].missing_tags # <<>>}

\* the k-th smallest element of a set of numbers
Nth(S, k) == CHOOSE x \in S : Cardinality({y \in S : y < x}) = k - 1

\* C11: a batch run produces exactly one result entry per record of the
\* uploads, in upload order (the records of the spreadsheet first, then those
\* of the archive, each in source order); total = number of records, failed =
\* number of entries with a non-empty issue list, which are exactly the
\* entries of the failure report, and passed = total - failed.
C11_BatchAggregate ==
    Validated =>
        /\ Len(validation_details) = Len(UploadOrder)
        /\ \A i \in 1..Len(UploadOrder) :
              /\ validation_details[i].question_id = get(UploadOrder[i], "question_id", Unknown)
              /\ validation_details[i].current_tags = get(UploadOrder[i], "tag_names", {})
              /\ validation_details[i].module_type = "MCQ" <=> i <= Len(SheetRecords)
              /\ validation_details[i].has_issues <=> i \in FailedPositions
        /\ total_questions = Len(UploadOrder)
        /\ issues_count = Cardinality(FailedPositions)
        /\ \A k \in 1..Len(all_questions) :
              /\ all_questions[k].question_id =
                    validation_details[Nth(FailedPositions, k)].question_id
              /\ all_questions[k].missing_tags =
                    validation_details[Nth(FailedPositions, k)].missing_tags
        /\ total_questions - issues_count =
              Cardinality((1..Len(UploadOrder)) \ FailedPositions)

C11_Witness ==
    /\ Validated
    /\ Len(SheetRecords) = 2
    /\ Len(ArchiveRecords) = 1
    /\ total_questions = 3
    /\ issues_count = 2
    /\ ~validation_details[3].has_issues

----------------------------------------------------------------------------
(* Sequence numbering over a batch run (under Spec).                       *)

\* the largest group size considered
MaxGroup == 3

\* the decimal numeral of a number from 1 to 9
Numeral(k) == <<(<<"1", "2", "3", "4", "5", "6", "7", "8", "9">>)[k]>>

\* the first 8 characters of a string
First8(s) == SubSeq(s, 1, IF Len(s) < 8 THEN Len(s) ELSE 8)

\* for the record at zero-based position i of the batch and group size n: the
\* tags the sequence check expects
ExpectedQuestionTag(i, n) ==
    QUESTION_ \o First8(validation_details[((i \div n) * n) + 1].question_id)

ExpectedSetTag(i, n) == SET_ \o Numeral((i % n) + 1)

\* the entry of the record at zero-based position i has an issue about tag t
ReportedAt(i, t) ==
    \E k \in 1..Len(validation_details[i + 1].missing_tags) :
        validation_details[i + 1].missing_tags[k].arg = t

\* the entry of the record at zero-based position i has an issue about a
\* QUESTION_ or SET_ tag
SequenceIssueAt(i) ==
    \E k \in 1..Len(validation_details[i + 1].missing_tags) :
        \/ startswith(validation_details[i + 1].missing_tags[k].arg, QUESTION_)
        \/ startswith(validation_details[i + 1].missing_tags[k].arg, SET_)

\* C12 (as stated): with group size n > 0, the record at zero-based position i
\* gets a Missing issue when its tag set lacks QUESTION_ + the first 8
\* characters of the id of the record at position (i div n) * n, and a Missing
\* issue when it lacks SET_ + ((i mod n) + 1).
C12_AsStated ==
    Validated =>
        \A n \in 1..MaxGroup : \A i \in 0..(Len(validation_details) - 1) :
            /\ ExpectedQuestionTag(i, n) \notin validation_details[i + 1].current_tags
                  => ReportedAt(i, ExpectedQuestionTag(i, n))
            /\ ExpectedSetTag(i, n) \notin validation_details[i + 1].current_tags
                  => ReportedAt(i, ExpectedSetTag(i, n))

\* C12 (amended): a batch run has no group size and checks no sequence: the
\* record at any position of the batch gets no issue about a QUESTION_ or a
\* SET_ tag, also when its tag set lacks the tags a group size n > 0 would
\* expect at its position.
C12_NoSequenceCheck ==
    Validated =>
        \A i \in 0..(Len(validation_details) - 1) :
            /\ ~SequenceIssueAt(i)
            /\ \A n \in 1..MaxGroup :
                  /\ ~ReportedAt(i, ExpectedQuestionTag(i, n))
                  /\ ~ReportedAt(i, ExpectedSetTag(i, n))

C12_Witness ==
    /\ Validated
    /\ Len(validation_details) = 3
    /\ ExpectedQuestionTag(1, 2) = QUESTION_11111111
    /\ ExpectedSetTag(1, 2) = SET_ \o <<"2">>
    /\ validation_details[2].has_issues
    /\ \A i \in 0..2 :
          /\ ExpectedQuestionTag(i, 2) \notin validation_details[i + 1].current_tags
          /\ ExpectedSetTag(i, 2) \notin validation_details[i + 1].current_tags
          /\ ~SequenceIssueAt(i)

----------------------------------------------------------------------------
(* The tag formatter on its own: one call of format_tag_name.              *)

React_JS == <<"R","e","a","c","t"," ","J","S">>
COURSE_React_JS == <<"C","O","U","R","S","E","_","R","e","a","c","t","_","J","S">>
COURSE_REACT_JS == <<"C","O","U","R","S","E","_","R","E","A","C","T","_","J","S">>

NameInputs ==
    ShortStrings \cup {Python, React_JS, Looping, Nested_Conditions, COURSE_PYTHON,
                       COURSE_Python, COURSE_}

InitFormat ==
    /\ IdleClassifier
    /\ IdleEngine
    /\ IdleApp
    /\ IdleExtract
    /\ valid_topic_tags_MCQS = {}
    /\ valid_sub_topic_tags_MCQS = {}
    /\ name_input \in NameInputs
    /\ name_prefix \in {COURSE_, MODULE_, UNIT_}
    /\ formatted = <<>>
    /\ pc = "call"

CallFormatTagName ==
    /\ pc = "call"
    /\ formatted' = format_tag_name(name_input, name_prefix)
    /\ pc' = "done"
    /\ UNCHANGED <<classifier_vars, engine_vars, catalog_vars, app_vars, name_input,
                   name_prefix, extract_vars>>

NextFormat == CallFormatTagName

SpecFormat == InitFormat /\ [][NextFormat]_vars

----------------------------------------------------------------------------
(* Properties of format_tag_name, checked under SpecFormat.                *)

Alnum == AlnumUnderscore \ {"_"}

\* the positions of s that start a run of alphanumeric characters
RunStarts(s) == {i \in 1..Len(s) : s[i] \in Alnum /\ (i = 1 \/ s[i - 1] \notin Alnum)}

\* s in uppercase with every run of other characters replaced by one
\* underscore and none at either end
RECURSIVE UpperName(_)
UpperName(s) ==
    IF s = <<>> THEN <<>>
    ELSE IF Head(s) \in Alnum THEN <<UpperChar(Head(s))>> \o UpperName(Tail(s))
    ELSE IF \E i \in 1..Len(s) : s[i] \in Alnum
         THEN IF Tail(s) # <<>> /\ Head(Tail(s)) \in Alnum
              THEN <<"_">> \o UpperName(Tail(s))
              ELSE UpperName(Tail(s))
    ELSE <<>>

\* UpperName without the underscore a leading run of other characters leaves
CanonicalName(s) ==
    LET u == UpperName(s)
    IN  IF u # <<>> /\ u[1] = "_" THEN Tail(u) ELSE u

\* C13 (as stated): on an input with an alphanumeric character the formatter
\* returns the prefix followed by the input in uppercase, every run of spaces
\* and special characters replaced by one underscore, none leading or
\* trailing; on an input without alphanumeric content it returns "".
C13_AsStated ==
    pc = "done" =>
        formatted = IF \E i \in 1..Len(name_input) : name_input[i] \in Alnum
                    THEN name_prefix \o CanonicalName(name_input)
                    ELSE <<>>

----------------------------------------------------------------------------
(* The spreadsheet extractor on its own: one call of extract_mcq_data.     *)

\* the largest number of rows of a sheet
MaxRows == 3

\* rows: a question with its own id as a tag; a question without tags, its
\* type in lower case and padded; tag rows with no id, with the type only,
\* with a blank id; an id of another type; a question with a cell of several
\* lines; an empty row
RowChoices ==
    {Row(Qid1, MULTIPLE_CHOICE, Qid1),
     Row(Qid2, multiple_choice_padded, None),
     Row(None, None, NoisyCell),
     Row(None, MULTIPLE_CHOICE, IS_PRIVATE),
     Row(Blank, MULTIPLE_CHOICE, Qid1),
     Row(Qid2, TEXT, SUB_TOPIC_B),
     Row(Qid1, MULTIPLE_CHOICE, NoisyCell),
     Row(None, None, None)}

InitExtract ==
    /\ IdleClassifier
    /\ IdleEngine
    /\ IdleApp
    /\ IdleFormat
    /\ valid_topic_tags_MCQS = {}
    /\ valid_sub_topic_tags_MCQS = {}
    /\ \E readable \in BOOLEAN, n \in 0..MaxRows : \E rows \in [1..n -> RowChoices] :
          sheet = [readable |-> readable, rows |-> rows]
    /\ extracted = <<>>
    /\ pc = "call"

CallExtractMcqData ==
    /\ pc = "call"
    /\ extracted' = extract_mcq_data(sheet)
    /\ pc' = "done"
    /\ UNCHANGED <<classifier_vars, engine_vars, catalog_vars, app_vars, format_vars,
                   sheet>>

NextExtract == CallExtractMcqData

SpecExtract == InitExtract /\ [][NextExtract]_vars

----------------------------------------------------------------------------
(* Properties of extract_mcq_data, checked under SpecExtract.              *)

\* the rows that start a question: type MULTIPLE_CHOICE and a non-empty id
StartRows ==
    {i \in 1..Len(sheet.rows) :
        /\ sheet.rows[i].type # None
        /\ upper(strip(sheet.rows[i].type)) = MULTIPLE_CHOICE
        /\ sheet.rows[i].id # None
        /\ strip(sheet.rows[i].id) # <<>>}

\* the rows from start row s up to, not including, the next start row
RowsOf(s) == {j \in s..Len(sheet.rows) : \A t \in StartRows : t > s => j < t}

\* the lines of a cell, each trimmed
Lines(cell) ==
    LET c == strip(cell)
        starts == {a \in 1..Len(c) : c[a] # "\n" /\ (a = 1 \/ c[a - 1] = "\n")}
        end(a) == CHOOSE b \in a..Len(c) :
                      /\ \A k \in a..b : c[k] # "\n"
                      /\ b = Len(c) \/ c[b + 1] = "\n"
    IN  {strip(SubSeq(c, a, end(a))) : a \in starts}

\* the tag strings in the tag column of the rows of the question starting at s
\* that is_valid_tag accepts for that question's id
TagsOf(s) ==
    {t \in UNION {Lines(sheet.rows[j].tags) :
                     j \in {j \in RowsOf(s) : sheet.rows[j].tags # None}} :
        is_valid_tag(t, strip(sheet.rows[s].id))}

\* C14: extract_mcq_data emits one record per row with type MULTIPLE_CHOICE and
\* a non-empty id, in row order; a record's tag set is exactly the set of tag
\* strings is_valid_tag accepts for the record's question_id in the tag column
\* of the rows from its start row up to the next start row, so tags before the
\* first start row belong to no record and no tag goes to another question.
C14_RecordsAndTags ==
    (pc = "done" /\ sheet.readable) =>
        /\ Len(extracted) = Cardinality(StartRows)
        /\ \A k \in 1..Len(extracted) :
              /\ extracted[k].question_id = strip(sheet.rows[Nth(StartRows, k)].id)
              /\ extracted[k].tag_names = TagsOf(Nth(StartRows, k))
              /\ extracted[k].type = "MCQ"

C14_Witness ==
    /\ pc = "done"
    /\ sheet.readable
    /\ sheet.rows = <<Row(Qid1, MULTIPLE_CHOICE, NoisyCell),
                      Row(Qid2, multiple_choice_padded, None),
                      Row(None, None, NoisyCell)>>
    /\ extracted = <<[question_id |-> Qid1, tag_names |-> {TOPIC_B}, type |-> "MCQ"],
                     [question_id |-> Qid2, tag_names |-> {TOPIC_B, Qid2}, type |-> "MCQ"]>>

----------------------------------------------------------------------------
(* The tags a batch run validates against (under Spec).                    *)

\* C15 (as stated): whenever a run validates, the course, module and unit tags
\* passed to validate_question_tags are format_tag_name of the text the
\* corresponding field holds in that run, whatever was typed before.
C15_AsStated ==
    Validated =>
        /\ course_tag = format_tag_name(course_input, COURSE_)
        /\ module_tag = format_tag_name(module_input, MODULE_)
        /\ unit_tag = format_tag_name(unit_input, UNIT_)

====
